---- MODULE Spec2Model ----
(***************************************************************************)
(* PassWeaver: the password variation toolkit (src/password_tool.py) and   *)
(* the original generator script (src/password_generator_original.py).     *)
(*                                                                         *)
(* A Python str is modelled as a sequence of one-character strings, so     *)
(* "ab" is <<"a", "b">>.  Characters are the printable ASCII characters;   *)
(* their order is the code-point order Python's comparison uses.           *)
(***************************************************************************)
EXTENDS Integers, Sequences, FiniteSets, TLC

\* ------------------------------------------------------------------------
\* Characters and the str methods the program uses
\* ------------------------------------------------------------------------

\* Printable ASCII in code-point order (the double quote, the backslash and
\* the grave accent, which no table or pattern of the program uses, are left out).
Ascii ==
  << " ", "!", "#", "$", "%", "&", "'", "(", ")", "*", "+", ",", "-",
     ".", "/", "0", "1", "2", "3", "4", "5", "6", "7", "8", "9", ":", ";",
     "<", "=", ">", "?", "@", "A", "B", "C", "D", "E", "F", "G", "H", "I",
     "J", "K", "L", "M", "N", "O", "P", "Q", "R", "S", "T", "U", "V", "W",
     "X", "Y", "Z", "[", "]", "^", "_", "a", "b", "c", "d", "e",
     "f", "g", "h", "i", "j", "k", "l", "m", "n", "o", "p", "q", "r", "s",
     "t", "u", "v", "w", "x", "y", "z", "{", "|", "}", "~" >>

Char == { Ascii[i] : i \in DOMAIN Ascii }

\* The position of a character in code-point order (ord(c) up to an offset).
Ord == [ c \in Char |-> CHOOSE i \in DOMAIN Ascii : Ascii[i] = c ]

UpperLetters ==
  << "A", "B", "C", "D", "E", "F", "G", "H", "I", "J", "K", "L", "M",
     "N", "O", "P", "Q", "R", "S", "T", "U", "V", "W", "X", "Y", "Z" >>

LowerLetters ==
  << "a", "b", "c", "d", "e", "f", "g", "h", "i", "j", "k", "l", "m",
     "n", "o", "p", "q", "r", "s", "t", "u", "v", "w", "x", "y", "z" >>

Digits == { "0", "1", "2", "3", "4", "5", "6", "7", "8", "9" }

IsUpper(c) == \E i \in DOMAIN UpperLetters : UpperLetters[i] = c
IsLower(c) == \E i \in DOMAIN LowerLetters : LowerLetters[i] = c
IsDigit(c) == c \in Digits
IsSpace(c) == c = " "

LowerChar ==
  [ c \in Char |->
      IF IsUpper(c)
      THEN LowerLetters[CHOOSE i \in DOMAIN UpperLetters : UpperLetters[i] = c]
      ELSE c ]

UpperChar ==
  [ c \in Char |->
      IF IsLower(c)
      THEN UpperLetters[CHOOSE i \in DOMAIN LowerLetters : LowerLetters[i] = c]
      ELSE c ]

\* str.lower(), str.upper(), str.capitalize()
lower(s) == [ i \in 1..Len(s) |-> LowerChar[s[i]] ]
upper(s) == [ i \in 1..Len(s) |-> UpperChar[s[i]] ]
capitalize(s) ==
  [ i \in 1..Len(s) |-> IF i = 1 THEN UpperChar[s[i]] ELSE LowerChar[s[i]] ]

\* str.strip(): leading and trailing whitespace removed.
strip(s) ==
  LET keep == { i \in 1..Len(s) : ~IsSpace(s[i]) }
  IN  IF keep = {} THEN << >>
      ELSE LET lo == CHOOSE i \in keep : \A j \in keep : i <= j
               hi == CHOOSE i \in keep : \A j \in keep : j <= i
           IN  SubSeq(s, lo, hi)

\* (b in s) on two strs: b occurs in s as a contiguous substring.
Contains(s, b) ==
  \E k \in 0..(Len(s) - Len(b)) : \A j \in 1..Len(b) : s[k + j] = b[j]

\* s < t in Python's str comparison: lexicographic by code point.
StrLess(s, t) ==
  LET n == IF Len(s) < Len(t) THEN Len(s) ELSE Len(t)
      d == { i \in 1..n : s[i] # t[i] }
  IN  IF d = {} THEN Len(s) < Len(t)
      ELSE LET k == CHOOSE i \in d : \A j \in d : i <= j
           IN  Ord[s[k]] < Ord[t[k]]

\* The ascending list of a set S of strs that agree on their first d
\* characters: the str of length d if S has it, then, for each character c
\* in code order, the strs whose next character is c.
RECURSIVE SortedFrom(_, _)
RECURSIVE SortedBuckets(_, _, _)
SortedFrom(S, d) ==
  IF S = {} THEN << >>
  ELSE IF Cardinality(S) = 1 THEN << CHOOSE s \in S : TRUE >>
  ELSE LET ended == { s \in S : Len(s) = d }
           rest == S \ ended
           heads == { s[d + 1] : s \in rest }
       IN  (IF ended = {} THEN << >> ELSE << CHOOSE s \in ended : TRUE >>)
             \o SortedBuckets(rest, d, SelectSeq(Ascii, LAMBDA c : c \in heads))

SortedBuckets(S, d, cs) ==
  IF cs = << >> THEN << >>
  ELSE SortedFrom({ s \in S : s[d + 1] = Head(cs) }, d + 1)
         \o SortedBuckets(S, d, Tail(cs))

\* sorted(S) of a set of strs: the ascending list of its elements.
sorted(S) == SortedFrom(S, 0)

Range(seq) == { seq[i] : i \in DOMAIN seq }

Min(a, b) == IF a < b THEN a ELSE b

\* seq[:n] for n >= 0
Prefix(seq, n) == SubSeq(seq, 1, IF n < Len(seq) THEN n ELSE Len(seq))

\* "abc" as the model writes it.  The program's literals, spelled out once.
S_x        == << "x" >>
S_123      == << "1", "2", "3" >>
S_2023     == << "2", "0", "2", "3" >>
S_bang     == << "!" >>
S_at       == << "@" >>
S_hash     == << "#" >>
S_admin    == << "a", "d", "m", "i", "n" >>
S_secure   == << "s", "e", "c", "u", "r", "e" >>
S_password == << "p", "a", "s", "s", "w", "o", "r", "d" >>
S_qwerty   == << "q", "w", "e", "r", "t", "y" >>
S_letmein  == << "l", "e", "t", "m", "e", "i", "n" >>
S_user     == << "u", "s", "e", "r" >>
S_1234     == << "1", "2", "3", "4" >>

\* ------------------------------------------------------------------------
\* State
\* ------------------------------------------------------------------------

VARIABLES
  word,         \* generate_leetspeak_variations: the word argument
  max_results,  \* generate_leetspeak_variations: the max_results argument
  returned,     \* level -> the list returned for (word, level, max_results),
                \* for the levels called so far
  words,        \* add_common_patterns: the words argument (a list)
  patterns,     \* add_common_patterns: the patterns argument (a list)
  patterned,    \* << >>, or << the list add_common_patterns returned >>
  password,     \* policy_check, estimate_entropy_bits: the password argument
  policy,       \* policy_check: the policy argument, << >> for None or << dict >>
  checked,      \* << >>, or << the (passed, failures) policy_check returned >>
  bits,         \* << >>, or << the float estimate_entropy_bits returned >>,
                \* in millionths of a bit
  hashes_file,      \* the lines of the file at hashes_path
  candidates_file,  \* the lines of the file at candidates_path
  max_checks,       \* lab_simulate_match: the max_checks argument
  targets,      \* << >>, or << the dict load_local_sha256_hashes returned >>
  hits,         \* << >>, or << the list lab_simulate_match returned >>
  pc,           \* where the running program is: "main" (password_tool.py
                \* started), "original" (password_generator_original.py
                \* started), "tui" (inside the loop of tui_main), "exit"
  args,         \* the argparse namespace of password_tool.py's main
  events,       \* what the program did so far, in order: core functions
                \* called, files opened or written, audit records, messages
  keyword,      \* tui_main: keyword
  leet_level,   \* tui_main: leet_level
  preview_count,  \* tui_main: preview_count
  keys,         \* tui_main: the number of keys read so far
  gen_args,     \* cmd_gen: args (keyword, leet, max_len, preview, outfile)
  gen_runs      \* cmd_gen: per run of the command so far, the lines it
                \* printed as the preview and what it wrote to the outfile

leetVars == << word, max_results, returned >>
patternVars == << words, patterns, patterned >>
analyzeVars == << password, policy, checked, bits >>
labVars == << hashes_file, candidates_file, max_checks, targets, hits >>
cliVars == << pc, args, events, keyword, leet_level, preview_count, keys >>
genVars == << gen_args, gen_runs >>
vars == << leetVars, patternVars, analyzeVars, labVars, cliVars, genVars >>

\* ------------------------------------------------------------------------
\* Bounds of the model
\* ------------------------------------------------------------------------

MaxWordLen == 2   \* generated words have at most this many characters
MaxResults == 4   \* max_results ranges over 1..MaxResults and the default
MaxWords == 2     \* add_common_patterns gets at most this many words
MaxPatterns == 2  \* add_common_patterns gets at most this many patterns
MaxPwLen == 2     \* policy_check: generated passwords have at most this length
MaxEntropyLen == 3  \* estimate_entropy_bits: generated passwords, likewise
MaxBans == 2      \* a policy bans at most this many substrings
MaxHashLines == 2   \* load_local_sha256_hashes: lines of the hash file
MaxTableLines == 2  \* lab_simulate_match: lines of the hash file
MaxCandLines == 2   \* lab_simulate_match: lines of the candidates file
MaxChecks == 2      \* max_checks ranges over 0..MaxChecks
MaxKeys == 3        \* tui_main reads at most this many keys before q
MaxKeywordLen == 1  \* cmd_gen: generated keywords have at most this length
MaxMaxLen == 4      \* cmd_gen: --max-len ranges over 0..MaxMaxLen and the default
MaxRuns == 2        \* the gen command is run at most this many times

\* ------------------------------------------------------------------------
\* Mutation pipeline: leetspeak variations
\* ------------------------------------------------------------------------

\* Every token of the table is one character, so substituting a position
\* keeps the length of the word.
leet_substitutions ==
  [ c \in { "a", "b", "c", "e", "g", "i", "o", "s", "t" } |->
      CASE c = "a" -> << "@", "4" >>
        [] c = "b" -> << "8" >>
        [] c = "c" -> << "(" >>
        [] c = "e" -> << "3" >>
        [] c = "g" -> << "9" >>
        [] c = "i" -> << "1", "!" >>
        [] c = "o" -> << "0" >>
        [] c = "s" -> << "$", "5" >>
        [] c = "t" -> << "7" >> ]

TripleCap == 50

\* max_results: int = 2000, the value when the caller gives none
DefaultMaxResults == 2000

Levels == 0..3

\* base = {word, word.lower(), word.upper(), word.capitalize()}
Base(wd) == { wd, lower(wd), upper(wd), capitalize(wd) }

\* indices = [i for i, ch in enumerate(w) if ch in leet_substitutions],
\* as the set of positions; the list is that set in increasing order.
Indices(w) == { i \in 1..Len(w) : w[i] \in DOMAIN leet_substitutions }

\* The single substitutions of the lowercased word w.
Singles(w) ==
  { [ w EXCEPT ![i] = leet_substitutions[w[i]][k] ] :
      <<i, k>> \in { p \in Indices(w) \X (1..2) :
                      p[2] <= Len(leet_substitutions[w[p[1]]]) } }

\* The pair substitutions: itertools.combinations(indices, 2), every
\* combination of the two positions' tokens.
Pairs(w) ==
  UNION { { [ w EXCEPT ![a] = leet_substitutions[w[a]][ka],
                         ![b] = leet_substitutions[w[b]][kb] ] :
              <<ka, kb>> \in (1..Len(leet_substitutions[w[a]]))
                               \X (1..Len(leet_substitutions[w[b]])) } :
          <<a, b>> \in { p \in Indices(w) \X Indices(w) : p[1] < p[2] } }

\* t < u for two triples of positions, lexicographically.
TripleLess(t, u) ==
  \/ t[1] < u[1]
  \/ t[1] = u[1] /\ t[2] < u[2]
  \/ t[1] = u[1] /\ t[2] = u[2] /\ t[3] < u[3]

\* list(itertools.combinations(indices, 3)): the increasing triples of
\* positions, in lexicographic order.
Combinations3(idx) ==
  LET T == { t \in idx \X idx \X idx : t[1] < t[2] /\ t[2] < t[3] }
      rank == [ t \in T |-> Cardinality({ u \in T : TripleLess(u, t) }) ] @@ << >>
  IN  [ i \in 1..Cardinality(T) |-> CHOOSE t \in T : rank[t] = i - 1 ] \o << >>

\* The triples without the [:50] slice: every combination is substituted.
Triples_uncapped(w) ==
  LET triples == Combinations3(Indices(w))
  IN  { [ w EXCEPT ![triples[n][1]] = leet_substitutions[w[triples[n][1]]][1],
                   ![triples[n][2]] = leet_substitutions[w[triples[n][2]]][1],
                   ![triples[n][3]] = leet_substitutions[w[triples[n][3]]][1] ] :
          n \in DOMAIN triples }

\* The limited triples: the first TripleCap combinations, each with the
\* first token ([:1]) of its three positions.
Triples(w) ==
  LET triples == Prefix(Combinations3(Indices(w)), TripleCap)
  IN  { [ w EXCEPT ![triples[n][1]] = leet_substitutions[w[triples[n][1]]][1],
                   ![triples[n][2]] = leet_substitutions[w[triples[n][2]]][1],
                   ![triples[n][3]] = leet_substitutions[w[triples[n][3]]][1] ] :
          n \in DOMAIN triples }

\* Variations with the substitutions of level >= 1 replacing the casings of
\* the word as given (variations = {w}) instead of adding to them.
Variations_casings_dropped(wd, level) ==
  LET w == lower(wd)
  IN  IF level = 0 THEN Base(wd)
      ELSE { w } \cup Singles(w)
             \cup (IF level >= 2 THEN Pairs(w) ELSE {})
             \cup (IF level >= 3 THEN Triples(w) ELSE {})

\* The set named variations when the function reaches its sort.
Variations(wd, level) ==
  LET w == lower(wd)
  IN  Base(wd)
        \cup (IF level >= 1 THEN Singles(w) ELSE {})
        \cup (IF level >= 2 THEN Pairs(w) ELSE {})
        \cup (IF level >= 3 THEN Triples(w) ELSE {})

\* generate_leetspeak_variations with the slice one too long
\* (results[:max_results + 1]).
generate_leetspeak_variations_off_by_one(wd, level, maxr) ==
  Prefix(sorted(Variations(wd, level)), maxr + 1)

\* results = sorted(variations); return results[:max_results]
generate_leetspeak_variations(wd, level, maxr) ==
  Prefix(sorted(Variations(wd, level)), maxr)

\* ------------------------------------------------------------------------
\* Specification SpecLeet: calls of generate_leetspeak_variations on one
\* word and one max_results, at any of the levels
\* ------------------------------------------------------------------------

WordAlphabet == { "a", "S", "1", "x" }

RECURSIVE StringsUpTo(_, _)
StringsUpTo(alphabet, n) ==
  IF n = 0 THEN { << >> }
  ELSE LET shorter == StringsUpTo(alphabet, n - 1)
       IN  shorter \cup { Append(s, c) : s \in shorter, c \in alphabet }

SampleWords ==
  { << "T", "e", "s", "t" >>,
    S_password,
    << "t", "e", "s", "t", "c", "a", "s", "e" >> }

Words == StringsUpTo(WordAlphabet, MaxWordLen) \cup SampleWords

LeetIdle ==
  /\ word = << >>
  /\ max_results = 0
  /\ returned = << >>

LeetStart ==
  /\ word \in Words
  /\ max_results \in (1..MaxResults) \cup { DefaultMaxResults }
  /\ returned = << >>

CallLeet(level) ==
  /\ level \notin DOMAIN returned
  /\ returned' = [ l \in DOMAIN returned \cup { level } |->
                     IF l = level
                     THEN generate_leetspeak_variations(word, level, max_results)
                     ELSE returned[l] ]
  /\ UNCHANGED << word, max_results >>
  /\ UNCHANGED << patternVars, analyzeVars, labVars, cliVars, genVars >>

\* ------------------------------------------------------------------------
\* Mutation pipeline: common patterns
\* ------------------------------------------------------------------------

COMMON_PATTERNS == << S_123, S_2023, S_bang, S_at, S_hash, S_admin, S_secure >>

\* The inner loop, for one word w: for every pattern p,
\*   result.add(w + p); result.add(p + w); result.add(w + "_" + p)
\* (adding to a set, the order of the additions does not show).
AddPatternsOfWord(result, w, ps) ==
  result \cup UNION { { w \o ps[j], ps[j] \o w, w \o << "_" >> \o ps[j] } :
                        j \in DOMAIN ps }

\* The outer loop over the words.
AddPatternsOfWords(result, ws, ps) ==
  result \cup UNION { AddPatternsOfWord({}, ws[i], ps) : i \in DOMAIN ws }

\* add_common_patterns with the result set starting empty (result = set())
\* instead of holding the input words.
add_common_patterns_words_dropped(ws, ps) ==
  sorted(AddPatternsOfWords({}, ws, ps))

\* result = set(words); the two loops; return sorted(result)
add_common_patterns(ws, ps) ==
  sorted(AddPatternsOfWords(Range(ws), ws, ps))

WordPool == { S_x, << "1" >>, << "a", "b" >> }
PatternPool == { S_123, << "1" >>, S_bang }

RECURSIVE ListsUpTo(_, _)
ListsUpTo(pool, n) ==
  IF n = 0 THEN { << >> }
  ELSE LET shorter == ListsUpTo(pool, n - 1)
       IN  shorter \cup { Append(l, e) : l \in shorter, e \in pool }

PatternsIdle ==
  /\ words = << >>
  /\ patterns = << >>
  /\ patterned = << >>

PatternsStart ==
  /\ words \in ListsUpTo(WordPool, MaxWords)
  /\ patterns \in ListsUpTo(PatternPool, MaxPatterns) \cup { COMMON_PATTERNS }
  /\ patterned = << >>

CallAddCommonPatterns ==
  /\ patterned = << >>
  /\ patterned' = << add_common_patterns(words, patterns) >>
  /\ UNCHANGED << words, patterns >>
  /\ UNCHANGED << leetVars, analyzeVars, labVars, cliVars, genVars >>

\* ------------------------------------------------------------------------
\* Entropy and policy
\* ------------------------------------------------------------------------

\* A float number of bits is represented in millionths of a bit, rounded
\* down: Micro is one bit.
Micro == 1000000

\* math.log2 on the charset sizes the function can reach, in millionths.
Log2Micro ==
  [ a \in { 10, 26, 32, 36, 42, 52, 58, 62, 68, 84, 94 } |->
      CASE a = 10 -> 3321928
        [] a = 26 -> 4700439
        [] a = 32 -> 5000000
        [] a = 36 -> 5169925
        [] a = 42 -> 5392317
        [] a = 52 -> 5700439
        [] a = 58 -> 5857980
        [] a = 62 -> 5954196
        [] a = 68 -> 6087462
        [] a = 84 -> 6392317
        [] a = 94 -> 6554588 ]

\* re.search(r'[a-z]', s) and the like: some character of s is in the class.
SearchLower(s) == \E i \in DOMAIN s : IsLower(s[i])
SearchUpper(s) == \E i \in DOMAIN s : IsUpper(s[i])
SearchDigit(s) == \E i \in DOMAIN s : IsDigit(s[i])
SearchOther(s) ==
  \E i \in DOMAIN s : ~IsLower(s[i]) /\ ~IsUpper(s[i]) /\ ~IsDigit(s[i])

\* re.search(r'(123|password|qwerty|admin|letmein)', s)
SearchCommon(s) ==
  \/ Contains(s, S_123)
  \/ Contains(s, S_password)
  \/ Contains(s, S_qwerty)
  \/ Contains(s, S_admin)
  \/ Contains(s, S_letmein)

\* estimate_entropy_bits without the final clamp (return bits).
estimate_entropy_bits_unclamped(pw) ==
  LET charset == (IF SearchLower(pw) THEN 26 ELSE 0)
                   + (IF SearchUpper(pw) THEN 26 ELSE 0)
                   + (IF SearchDigit(pw) THEN 10 ELSE 0)
                   + (IF SearchOther(pw) THEN 32 ELSE 0)
  IN  IF charset = 0 THEN 0
      ELSE IF SearchCommon(lower(pw))
           THEN Len(pw) * Log2Micro[charset] - 10 * Micro
           ELSE Len(pw) * Log2Micro[charset]

estimate_entropy_bits(pw) ==
  LET charset == (IF SearchLower(pw) THEN 26 ELSE 0)
                   + (IF SearchUpper(pw) THEN 26 ELSE 0)
                   + (IF SearchDigit(pw) THEN 10 ELSE 0)
                   + (IF SearchOther(pw) THEN 32 ELSE 0)
  IN  IF charset = 0 THEN 0
      ELSE LET bits0 == Len(pw) * Log2Micro[charset]
               bits1 == IF SearchCommon(lower(pw)) THEN bits0 - 10 * Micro
                        ELSE bits0
           IN  IF bits1 > 0 THEN bits1 ELSE 0

\* The failure codes, as strs.
too_short ==
  << "t", "o", "o", "_", "s", "h", "o", "r", "t" >>
missing_upper ==
  << "m", "i", "s", "s", "i", "n", "g", "_", "u", "p", "p", "e", "r" >>
missing_digit ==
  << "m", "i", "s", "s", "i", "n", "g", "_", "d", "i", "g", "i", "t" >>
\* f'contains_{b}'
contains_(b) ==
  << "c", "o", "n", "t", "a", "i", "n", "s", "_" >> \o b

DefaultPolicy ==
  [ min_length |-> 8,
    require_upper |-> TRUE,
    require_digit |-> TRUE,
    ban_substrings |-> << S_password, S_1234 >> ]

\* for b in policy.get('ban_substrings', []): if b in lower: failures.append(..)
RECURSIVE BanLoop(_, _, _)
BanLoop(failures, lowered, bans) ==
  IF bans = << >> THEN failures
  ELSE BanLoop(IF Contains(lowered, Head(bans))
               THEN Append(failures, contains_(Head(bans)))
               ELSE failures,
               lowered, Tail(bans))

\* policy_check returning at the first failed check.
policy_check_short_circuit(pw, policyArg) ==
  LET pol == IF policyArg = << >> THEN DefaultPolicy ELSE policyArg[1]
      f == IF Len(pw) < pol.min_length THEN << too_short >>
           ELSE IF pol.require_upper /\ ~SearchUpper(pw) THEN << missing_upper >>
           ELSE IF pol.require_digit /\ ~SearchDigit(pw) THEN << missing_digit >>
           ELSE BanLoop(<< >>, lower(pw), pol.ban_substrings)
  IN  [ passed |-> Len(f) = 0, failures |-> f ]

policy_check(pw, policyArg) ==
  LET pol == IF policyArg = << >> THEN DefaultPolicy ELSE policyArg[1]
      f1 == IF Len(pw) < pol.min_length THEN << too_short >> ELSE << >>
      f2 == IF pol.require_upper /\ ~SearchUpper(pw)
            THEN Append(f1, missing_upper) ELSE f1
      f3 == IF pol.require_digit /\ ~SearchDigit(pw)
            THEN Append(f2, missing_digit) ELSE f2
      f4 == BanLoop(f3, lower(pw), pol.ban_substrings)
  IN  [ passed |-> Len(f4) = 0, failures |-> f4 ]

PasswordAlphabet == { "a", "A", "1", "!" }

S_abcdefg1 == << "a", "b", "c", "d", "e", "f", "g", "1" >>

SamplePasswords ==
  { S_abcdefg1,
    << "A", "b", "c", "d", "e", "f", "g", "1" >>,
    << "a", "a", "a", "a", "a", "a", "a", "a" >>,
    S_123,
    S_1234,
    S_password,
    << "P", "a", "s", "s", "w", "o", "r", "d", "1" >>,
    << "P", "A", "S", "S", "W", "O", "R", "D", "1", "2", "3", "4" >>,
    << "A", "d", "m", "i", "n", "!" >>,
    << "Q", "W", "E", "R", "T", "Y" >>,
    << "x", "1", "2", "3" >>,
    << "!", "!" >> }

Passwords == StringsUpTo(PasswordAlphabet, MaxPwLen) \cup SamplePasswords

S_Pass == << "P", "a", "s", "s" >>

BanPool == { S_password, S_1234, S_Pass }

Policies ==
  [ min_length : { 4, 8 },
    require_upper : BOOLEAN,
    require_digit : BOOLEAN,
    ban_substrings : ListsUpTo(BanPool, MaxBans) ]

AnalyzeIdle ==
  /\ password = << >>
  /\ policy = << >>
  /\ checked = << >>
  /\ bits = << >>

PolicyStart ==
  /\ password \in Passwords
  /\ policy \in { << >> } \cup { << pol >> : pol \in Policies }
  /\ checked = << >>
  /\ bits = << >>

EntropyStart ==
  /\ password \in StringsUpTo(PasswordAlphabet, MaxEntropyLen) \cup SamplePasswords
  /\ policy = << >>
  /\ checked = << >>
  /\ bits = << >>

CallPolicyCheck ==
  /\ checked = << >>
  /\ checked' = << policy_check(password, policy) >>
  /\ UNCHANGED << password, policy, bits >>
  /\ UNCHANGED << leetVars, patternVars, labVars, cliVars, genVars >>

CallEstimateEntropy ==
  /\ bits = << >>
  /\ bits' = << estimate_entropy_bits(password) >>
  /\ UNCHANGED << password, policy, checked >>
  /\ UNCHANGED << leetVars, patternVars, labVars, cliVars, genVars >>

\* ------------------------------------------------------------------------
\* Lab simulation
\* ------------------------------------------------------------------------

\* A text file is the sequence of its lines, each without its line end (which
\* the strip() applied to every line read removes with the other
\* whitespace).  A dict is the sequence of its (key, value) pairs in
\* insertion order, with distinct keys.

\* The length of a SHA-256 hexdigest.
DigestLen == 64

HexDigits ==
  << "0", "1", "2", "3", "4", "5", "6", "7",
     "8", "9", "a", "b", "c", "d", "e", "f" >>

\* The sum over the first k characters of str of Ord * (position + i).
RECURSIVE WeightedSum(_, _, _)
WeightedSum(str, i, k) ==
  IF k = 0 THEN 0
  ELSE WeightedSum(str, i, k - 1) + (Ord[str[k]] * (k + i))

\* hashlib.sha256(s.encode('utf-8')).hexdigest(): a string of DigestLen
\* lowercase hex digits determined by s.  The digest function of the model
\* mixes the characters of s with their positions; it is not SHA-256, and it
\* separates the strings of the model's candidate pool.
sha256_hex(str) ==
  LET mix(i) == (7 * i) + (Len(str) * (i + 3)) + WeightedSum(str, i, Len(str))
  IN  [ i \in 1..DigestLen |-> HexDigits[(mix(i) % 16) + 1] ] \o << >>

\* line.split(':', 1) on a line that holds a colon
FirstColon(line) ==
  CHOOSE i \in DOMAIN line :
    line[i] = ":" /\ \A j \in 1..(i - 1) : line[j] # ":"

\* out[key] = value on a dict
DictSet(out, key, value) ==
  IF \E i \in DOMAIN out : out[i][1] = key
  THEN [ i \in DOMAIN out |-> IF out[i][1] = key THEN << key, value >> ELSE out[i] ]
  ELSE Append(out, << key, value >>)

\* The loop of load_local_sha256_hashes over the lines not yet read.
RECURSIVE LoadLoop(_, _)
LoadLoop(out, lines) ==
  IF lines = << >> THEN out
  ELSE LET line == strip(Head(lines))
       IN  IF line = << >> \/ ":" \notin Range(line)
           THEN LoadLoop(out, Tail(lines))
           ELSE LET k == FirstColon(line)
                    user == SubSeq(line, 1, k - 1)
                    hh == SubSeq(line, k + 1, Len(line))
                IN  LoadLoop(DictSet(out, strip(user), lower(strip(hh))),
                             Tail(lines))

\* The same loop storing the digest as written (hh.strip(), no lower()).
RECURSIVE LoadLoop_not_lowered(_, _)
LoadLoop_not_lowered(out, lines) ==
  IF lines = << >> THEN out
  ELSE LET line == strip(Head(lines))
       IN  IF line = << >> \/ ":" \notin Range(line)
           THEN LoadLoop_not_lowered(out, Tail(lines))
           ELSE LET k == FirstColon(line)
                    user == SubSeq(line, 1, k - 1)
                    hh == SubSeq(line, k + 1, Len(line))
                IN  LoadLoop_not_lowered(DictSet(out, strip(user), strip(hh)),
                                         Tail(lines))

load_local_sha256_hashes_not_lowered(lines) == LoadLoop_not_lowered(<< >>, lines)

load_local_sha256_hashes(lines) == LoadLoop(<< >>, lines)

\* for i, line in enumerate(f): if i >= max_checks: break;
\* candidates.append(line.strip())
ReadCandidates(lines, maxc) ==
  LET n == IF maxc < 0 THEN 0 ELSE Min(maxc, Len(lines))
  IN  [ i \in 1..n |-> strip(lines[i]) ]

\* The inner loop: for user, th in targets.items(): if h == th: hits.append(..)
RECURSIVE MatchTargets(_, _, _, _)
MatchTargets(hitsSoFar, cand, h, tgts) ==
  IF tgts = << >> THEN hitsSoFar
  ELSE MatchTargets(IF h = Head(tgts)[2]
                    THEN Append(hitsSoFar, << Head(tgts)[1], cand, h >>)
                    ELSE hitsSoFar,
                    cand, h, Tail(tgts))

\* The outer loop: for cand in candidates: h = sha256_hex(cand); ...
RECURSIVE MatchCandidates(_, _, _)
MatchCandidates(hitsSoFar, cands, tgts) ==
  IF cands = << >> THEN hitsSoFar
  ELSE MatchCandidates(
         MatchTargets(hitsSoFar, Head(cands), sha256_hex(Head(cands)), tgts),
         Tail(cands), tgts)

\* lab_simulate_match reading one line more than max_checks (i > max_checks).
lab_simulate_match_one_more(hashLines, candLines, maxc) ==
  MatchCandidates(<< >>, ReadCandidates(candLines, maxc + 1),
                  load_local_sha256_hashes(hashLines))

lab_simulate_match(hashLines, candLines, maxc) ==
  MatchCandidates(<< >>, ReadCandidates(candLines, maxc),
                  load_local_sha256_hashes(hashLines))

S_hunter2 == << "h", "u", "n", "t", "e", "r", "2" >>
S_pass == << "p", "a", "s", "s" >>
S_alice == << "a", "l", "i", "c", "e" >>
S_bob == << "b", "o", "b" >>
S_carol == << "c", "a", "r", "o", "l" >>

\* Lines of a hash file.
Line_alice == S_alice \o << ":" >> \o sha256_hex(S_hunter2)
Line_bob_upper == S_bob \o << ":" >> \o upper(sha256_hex(S_pass))
Line_carol_spaced ==
  << " " >> \o S_carol \o << " ", ":", " " >> \o sha256_hex(S_hunter2) \o << " " >>
Line_bob_short == S_bob \o << ":", "x", "Y", "z" >>
Line_two_colons == << "d", ":", "a", "b", ":", "C", "D" >>
Line_no_colon == S_alice \o sha256_hex(S_hunter2)
Line_empty == << >>
Line_blank == << " ", " " >>

HashLinePool ==
  { Line_alice, Line_bob_upper, Line_carol_spaced, Line_bob_short,
    Line_two_colons, Line_no_colon, Line_empty, Line_blank }

TableLinePool == { Line_alice, Line_bob_upper, Line_carol_spaced, Line_bob_short }

CandidateLinePool == { S_hunter2, << " " >> \o S_pass \o << " " >>, S_x }

LabIdle ==
  /\ hashes_file = << >>
  /\ candidates_file = << >>
  /\ max_checks = 0
  /\ targets = << >>
  /\ hits = << >>

LoadStart ==
  /\ hashes_file \in ListsUpTo(HashLinePool, MaxHashLines)
  /\ candidates_file = << >>
  /\ max_checks = 0
  /\ targets = << >>
  /\ hits = << >>

MatchStart ==
  /\ hashes_file \in ListsUpTo(TableLinePool, MaxTableLines)
  /\ candidates_file \in ListsUpTo(CandidateLinePool, MaxCandLines)
  /\ max_checks \in 0..MaxChecks
  /\ targets = << >>
  /\ hits = << >>

CallLoadHashes ==
  /\ targets = << >>
  /\ targets' = << load_local_sha256_hashes(hashes_file) >>
  /\ UNCHANGED << hashes_file, candidates_file, max_checks, hits >>
  /\ UNCHANGED << leetVars, patternVars, analyzeVars, cliVars, genVars >>

CallLabSimulateMatch ==
  /\ hits = << >>
  /\ hits' = << lab_simulate_match(hashes_file, candidates_file, max_checks) >>
  /\ UNCHANGED << hashes_file, candidates_file, max_checks, targets >>
  /\ UNCHANGED << leetVars, patternVars, analyzeVars, cliVars, genVars >>

\* ------------------------------------------------------------------------
\* Command line, terminal UI and the original script
\* ------------------------------------------------------------------------

\* One thing the program did.  what names the function, file or message and
\* arg is the keyword (or password) it was about, << >> when there is none.
Event(kind, what, arg) == [ kind |-> kind, what |-> what, arg |-> arg ]

Call(fn, arg) == Event("call", fn, arg)
Message(msg) == Event("print", msg, << >>)
Audit(msg) == Event("audit", msg, << >>)
Open(file) == Event("open", file, << >>)

NoArgs ==
  [ cmd |-> "", keyword |-> << >>, leet |-> 0, lab |-> FALSE, confirm |-> FALSE,
    hashes_exists |-> FALSE, candidates_exists |-> FALSE, path_exists |-> FALSE ]

\* lab_simulate_match's default max_checks
DefaultMaxChecks == 100000

\* re.match(r'^[a-zA-Z0-9]+$', keyword) on a keyword without a line end
MatchesAlnum(kw) ==
  /\ kw # << >>
  /\ \A i \in DOMAIN kw : IsLower(kw[i]) \/ IsUpper(kw[i]) \/ IsDigit(kw[i])

\* Keywords a user can give: two alphanumeric ones, one with symbols, one
\* with a space inside, the empty one.
KeywordPool ==
  { << "a", "b", "1" >>,
    S_Pass,
    << "p", "@", "s", "s", "!" >>,
    << "a", " ", "b" >>,
    << >> }

\* Lines typed at the original script's prompt, before its strip().
InputPool == KeywordPool \cup { << " ", "a", "b", "1", " " >>, << " " >> }

TuiIdle ==
  /\ keyword = << >>
  /\ leet_level = 0
  /\ preview_count = 0
  /\ keys = 0

CliIdle ==
  /\ pc = "exit"
  /\ args = NoArgs
  /\ events = << >>
  /\ TuiIdle

CliStart ==
  /\ pc \in { "main", "original" }
  /\ args = NoArgs
  /\ events = << >>
  /\ TuiIdle
  /\ hashes_file \in { << Line_alice >>, << Line_bob_upper, Line_no_colon >> }
  /\ candidates_file \in { << S_hunter2 >>, << S_x, S_pass >> }
  /\ max_checks = 0
  /\ targets = << >>
  /\ hits = << >>

\* main: args.cmd is empty: p.print_help(); return
MainHelp ==
  /\ pc = "main"
  /\ pc' = "exit"
  /\ args' = NoArgs
  /\ events' = Append(events, Message("help"))
  /\ UNCHANGED << keyword, leet_level, preview_count, keys, labVars >>
  /\ UNCHANGED << leetVars, patternVars, analyzeVars, genVars >>

\* main -> cmd_write_style
CmdWriteStyle ==
  /\ pc = "main"
  /\ pc' = "exit"
  /\ args' = [ NoArgs EXCEPT !.cmd = "write-style" ]
  /\ events' = events \o << Event("write", "STYLECARD.txt", << >>),
                            Event("write", "README.md", << >>),
                            Event("write", "requirements.txt", << >>),
                            Message("Wrote STYLECARD.txt, README.md, requirements.txt"),
                            Audit("STYLECARD and README written") >>
  /\ UNCHANGED << keyword, leet_level, preview_count, keys, labVars >>
  /\ UNCHANGED << leetVars, patternVars, analyzeVars, genVars >>

\* The events of cmd_gen on a keyword: the audit record, the pipeline, the
\* preview, the output file, the audit record.
GenEvents(kw, preview, outfile) ==
  << Audit("gen called"),
     Call("generate_common_passwords", kw),
     Call("generate_leetspeak_variations", kw),
     Call("add_common_patterns", kw),
     Call("filter_by_charset", kw) >>
    \o (IF preview THEN << Message("Top candidates") >> ELSE << >>)
    \o (IF outfile THEN << Event("write", "outfile", kw), Message("Wrote candidates") >>
        ELSE << >>)
    \o << Audit("Generated candidates") >>

\* main -> cmd_gen.  preview and outfile say whether --preview is nonzero and
\* --outfile nonempty.
CmdGen(kw, leet, preview, outfile) ==
  /\ pc = "main"
  /\ pc' = "exit"
  /\ args' = [ NoArgs EXCEPT !.cmd = "gen", !.keyword = kw, !.leet = leet ]
  /\ events' = events \o GenEvents(kw, preview, outfile)
  /\ UNCHANGED << keyword, leet_level, preview_count, keys, labVars >>
  /\ UNCHANGED << leetVars, patternVars, analyzeVars, genVars >>

\* main -> cmd_analyze
CmdAnalyze(exists) ==
  /\ pc = "main"
  /\ pc' = "exit"
  /\ args' = [ NoArgs EXCEPT !.cmd = "analyze", !.path_exists = exists ]
  /\ events' =
       IF ~exists THEN Append(events, Message("Candidates file not found"))
       ELSE events
              \o << Message("password,entropy_bits,policy_ok,failures"),
                    Open("candidates") >>
              \o [ i \in DOMAIN candidates_file |->
                     Event("print", "report", strip(candidates_file[i])) ]
  /\ UNCHANGED << keyword, leet_level, preview_count, keys, labVars >>
  /\ UNCHANGED << leetVars, patternVars, analyzeVars, genVars >>

\* The gate with "and" for "or": it refuses only when both flags are missing.
LabGateOpen_either(lab, confirm) == lab \/ confirm

\* The gate of cmd_lab_sim: if not args.lab or not args.confirm: refuse.
LabGateOpen(lab, confirm) == lab /\ confirm

\* main -> cmd_lab_sim
CmdLabSim(lab, confirm, hashesExists, candidatesExists) ==
  /\ pc = "main"
  /\ pc' = "exit"
  /\ args' = [ NoArgs EXCEPT !.cmd = "lab-sim", !.lab = lab, !.confirm = confirm,
                             !.hashes_exists = hashesExists,
                             !.candidates_exists = candidatesExists ]
  /\ IF ~LabGateOpen(lab, confirm)
     THEN /\ events' = Append(events, Message("Lab simulation requires --lab and --confirm"))
          /\ UNCHANGED hits
     ELSE IF ~hashesExists \/ ~candidatesExists
     THEN /\ events' = Append(events, Message("Hashes or candidates file missing"))
          /\ UNCHANGED hits
     ELSE LET found == lab_simulate_match(hashes_file, candidates_file, DefaultMaxChecks)
          IN  /\ hits' = << found >>
              /\ events' = events
                   \o << Audit("Lab sim started"),
                         Call("lab_simulate_match", << >>),
                         Open("hashes"),
                         Open("candidates"),
                         Message(IF found = << >> THEN "No hits found" ELSE "HITS"),
                         Audit("Lab sim finished") >>
  /\ UNCHANGED << keyword, leet_level, preview_count, keys >>
  /\ UNCHANGED << hashes_file, candidates_file, max_checks, targets >>
  /\ UNCHANGED << leetVars, patternVars, analyzeVars, genVars >>

\* main -> run_tui -> tui_main, up to its loop
RunTui ==
  /\ pc = "main"
  /\ pc' = "tui"
  /\ args' = [ NoArgs EXCEPT !.cmd = "tui" ]
  /\ keyword' = S_password
  /\ leet_level' = 1
  /\ preview_count' = 50
  /\ keys' = 0
  /\ UNCHANGED << events, labVars >>
  /\ UNCHANGED << leetVars, patternVars, analyzeVars, genVars >>

\* tui_main: q or ESC
TuiQuit ==
  /\ pc = "tui"
  /\ pc' = "exit"
  /\ UNCHANGED << args, events, keyword, leet_level, preview_count, keys, labVars >>
  /\ UNCHANGED << leetVars, patternVars, analyzeVars, genVars >>

\* tui_main: l
TuiLevel ==
  /\ pc = "tui"
  /\ keys < MaxKeys
  /\ keys' = keys + 1
  /\ leet_level' = Min(3, leet_level + 1)
  /\ UNCHANGED << pc, args, events, keyword, preview_count, labVars >>
  /\ UNCHANGED << leetVars, patternVars, analyzeVars, genVars >>

\* tui_main: g
TuiGenerate ==
  /\ pc = "tui"
  /\ keys < MaxKeys
  /\ keys' = keys + 1
  /\ events' = events
       \o << Call("generate_leetspeak_variations", keyword),
             Event("print", "PREVIEW",
                   IF generate_leetspeak_variations(keyword, leet_level, preview_count)
                        = << >>
                   THEN << >> ELSE keyword) >>
  /\ UNCHANGED << pc, args, keyword, leet_level, preview_count, labVars >>
  /\ UNCHANGED << leetVars, patternVars, analyzeVars, genVars >>

\* tui_main: k, then the keyword typed (kept when it is not empty)
TuiKeyword(kw) ==
  /\ pc = "tui"
  /\ keys < MaxKeys
  /\ keys' = keys + 1
  /\ keyword' = IF kw # << >> THEN kw ELSE keyword
  /\ UNCHANGED << pc, args, events, leet_level, preview_count, labVars >>
  /\ UNCHANGED << leetVars, patternVars, analyzeVars, genVars >>

\* tui_main: p
TuiPreview ==
  /\ pc = "tui"
  /\ keys < MaxKeys
  /\ keys' = keys + 1
  /\ preview_count' = Min(500, preview_count + 50)
  /\ UNCHANGED << pc, args, events, keyword, leet_level, labVars >>
  /\ UNCHANGED << leetVars, patternVars, analyzeVars, genVars >>

\* password_generator_original.py main: the prompt, the check of the
\* keyword, generate_passwords, the file
OriginalMain(typed) ==
  /\ pc = "original"
  /\ pc' = "exit"
  /\ LET kw == strip(typed)
     IN  events' =
           IF ~MatchesAlnum(kw)
           THEN events \o << Message("Enter a keyword"), Message("Invalid input") >>
           ELSE events
                  \o << Message("Enter a keyword"),
                        Call("generate_common_passwords", kw),
                        Call("generate_leetspeak_variations", kw),
                        Call("add_common_patterns", kw),
                        Call("ml_generate_more_variations", kw),
                        Message("Generated Passwords"),
                        Event("write", "generated_passwords.txt", kw) >>
  /\ UNCHANGED << args, keyword, leet_level, preview_count, keys, labVars >>
  /\ UNCHANGED << leetVars, patternVars, analyzeVars, genVars >>

\* ------------------------------------------------------------------------
\* The gen command: the candidate list
\* ------------------------------------------------------------------------

\* common_patterns of generate_common_passwords
common_patterns ==
  << S_123, S_password, S_admin, S_user, S_secure, S_qwerty, S_letmein >>

\* variations = [keyword, keyword.lower(), keyword.upper(), keyword.capitalize()];
\* out.add(v + p); out.add(p + v) for every v and p; return sorted(out)
generate_common_passwords(kw) ==
  LET variations == << kw, lower(kw), upper(kw), capitalize(kw) >>
  IN  sorted({ variations[i] \o common_patterns[j] :
                 i \in DOMAIN variations, j \in DOMAIN common_patterns }
             \cup
             { common_patterns[j] \o variations[i] :
                 i \in DOMAIN variations, j \in DOMAIN common_patterns })

\* filter_by_charset without the upper limit: only len(w) < min_len drops w.
filter_by_charset_no_upper(ws, min_len, max_len) ==
  SelectSeq(ws, LAMBDA w : ~(Len(w) < min_len))

\* filter_by_charset with regex_allow = None, as cmd_gen calls it: w is
\* skipped if len(w) < min_len or len(w) > max_len, and appended otherwise.
filter_by_charset(ws, min_len, max_len) ==
  SelectSeq(ws, LAMBDA w : ~(Len(w) < min_len \/ Len(w) > max_len))

\* cmd_gen's final: base + leet, add_common_patterns, filter_by_charset with
\* min_len=1, then sorted(set(final)).
GenFinal(kw, leet, max_len) ==
  LET base == generate_common_passwords(kw)
      leetList == generate_leetspeak_variations(kw, leet, DefaultMaxResults)
      combined == base \o leetList
      withPatterns == add_common_patterns(combined, COMMON_PATTERNS)
      filtered == filter_by_charset(withPatterns, 1, max_len)
  IN  sorted(Range(filtered))

\* seq[:n] for any integer n
Slice(seq, n) ==
  IF n >= 0 THEN Prefix(seq, n)
  ELSE SubSeq(seq, 1, IF Len(seq) + n > 0 THEN Len(seq) + n ELSE 0)

\* --leet, --max-len and --preview when the command line does not give them
DefaultLeet == 1
DefaultMaxLen == 32
DefaultPreview == 20

GenKeywordAlphabet == { "a", "B" }

GenKeywords == StringsUpTo(GenKeywordAlphabet, MaxKeywordLen)

GenIdle ==
  /\ gen_args = << >>
  /\ gen_runs = << >>

GenStart ==
  /\ gen_args \in [ keyword : GenKeywords,
                    leet : { 0, DefaultLeet, 3 },
                    max_len : (0..MaxMaxLen) \cup { DefaultMaxLen },
                    preview : { -1, 0, DefaultPreview },
                    outfile : BOOLEAN ]
  /\ gen_runs = << >>

\* main -> cmd_gen, with the lines it prints and writes: the preview is
\* final[:preview] if preview is nonzero, the outfile gets every entry of
\* final if a name is given.
GenCommand ==
  /\ Len(gen_runs) < MaxRuns
  /\ LET final == GenFinal(gen_args.keyword, gen_args.leet, gen_args.max_len)
     IN  gen_runs' = Append(gen_runs,
           [ previewed |-> IF gen_args.preview # 0
                           THEN Slice(final, gen_args.preview) ELSE << >>,
             written |-> IF gen_args.outfile THEN << final >> ELSE << >> ])
  /\ UNCHANGED gen_args
  /\ UNCHANGED << leetVars, patternVars, analyzeVars, labVars, cliVars >>

\* ------------------------------------------------------------------------
\* Specifications.  Each checks one group of functions on arguments drawn
\* from bounded sets; the state of the other groups stays idle.
\* ------------------------------------------------------------------------

\* Calls of generate_leetspeak_variations on one word and one max_results,
\* at any of the levels.
InitLeet == LeetStart /\ PatternsIdle /\ AnalyzeIdle /\ LabIdle /\ CliIdle /\ GenIdle
NextLeet == \E level \in Levels : CallLeet(level)
SpecLeet == InitLeet /\ [][NextLeet]_vars

\* A call of add_common_patterns.
InitPatterns == PatternsStart /\ LeetIdle /\ AnalyzeIdle /\ LabIdle /\ CliIdle /\ GenIdle
NextPatterns == CallAddCommonPatterns
SpecPatterns == InitPatterns /\ [][NextPatterns]_vars

\* A call of policy_check.
InitPolicy == PolicyStart /\ LeetIdle /\ PatternsIdle /\ LabIdle /\ CliIdle /\ GenIdle
NextPolicy == CallPolicyCheck
SpecPolicy == InitPolicy /\ [][NextPolicy]_vars

\* A call of estimate_entropy_bits.
InitEntropy == EntropyStart /\ LeetIdle /\ PatternsIdle /\ LabIdle /\ CliIdle /\ GenIdle
NextEntropy == CallEstimateEntropy
SpecEntropy == InitEntropy /\ [][NextEntropy]_vars

\* A call of load_local_sha256_hashes.
InitLoad == LoadStart /\ LeetIdle /\ PatternsIdle /\ AnalyzeIdle /\ CliIdle /\ GenIdle
NextLoad == CallLoadHashes
SpecLoad == InitLoad /\ [][NextLoad]_vars

\* A call of lab_simulate_match.
InitMatch == MatchStart /\ LeetIdle /\ PatternsIdle /\ AnalyzeIdle /\ CliIdle /\ GenIdle
NextMatch == CallLabSimulateMatch
SpecMatch == InitMatch /\ [][NextMatch]_vars

\* A run of password_tool.py on any command line, or of
\* password_generator_original.py on any line typed.
InitCli == CliStart /\ LeetIdle /\ PatternsIdle /\ AnalyzeIdle /\ GenIdle
NextCli ==
  \/ MainHelp
  \/ CmdWriteStyle
  \/ \E kw \in KeywordPool, leet \in Levels, preview, outfile \in BOOLEAN :
       CmdGen(kw, leet, preview, outfile)
  \/ \E exists \in BOOLEAN : CmdAnalyze(exists)
  \/ \E lab, confirm, hashesExists, candidatesExists \in BOOLEAN :
       CmdLabSim(lab, confirm, hashesExists, candidatesExists)
  \/ RunTui
  \/ TuiQuit
  \/ TuiLevel
  \/ TuiGenerate
  \/ \E kw \in KeywordPool : TuiKeyword(kw)
  \/ TuiPreview
  \/ \E typed \in InputPool : OriginalMain(typed)
SpecCli == InitCli /\ [][NextCli]_vars

\* Runs of the gen command on one command line.
InitGen ==
  GenStart /\ LeetIdle /\ PatternsIdle /\ AnalyzeIdle /\ LabIdle /\ CliIdle
NextGen == GenCommand
SpecGen == InitGen /\ [][NextGen]_vars

\* ------------------------------------------------------------------------
\* Claims
\* ------------------------------------------------------------------------


\* C1: whatever the word, the level and max_results >= 1, the list returned
\* is the first min(max_results, |V|) entries of the sorted, duplicate-free
\* variant set V of that level: it is strictly increasing, has that length
\* (so at most max_results), holds only variants, and every variant left out
\* is greater than every entry returned.
C1_SortedPrefixOfVariants ==
  \A l \in DOMAIN returned :
      LET r == returned[l]
          V == Variations(word, l)
      IN  /\ Len(r) = Min(max_results, Cardinality(V))
          /\ Len(r) <= max_results
          /\ Range(r) \subseteq V
          /\ \A i \in 1..(Len(r) - 1) : StrLess(r[i], r[i + 1])
          /\ \A v \in V \ Range(r) : \A i \in DOMAIN r : StrLess(r[i], v)

\* C1 witness: a level-3 call on a word with more than TripleCap triples
\* whose variant set is larger than max_results has returned max_results
\* entries.
C1_Witness ==
  /\ 3 \in DOMAIN returned
  /\ Cardinality(Indices(lower(word))) >= 8
  /\ Cardinality(Variations(word, 3)) > max_results
  /\ Len(returned[3]) = max_results

\* C2, as claimed: with the same word and the same max_results, every string
\* returned at level 0 is also returned at level 1.
C2_Level0SubsetOfLevel1 ==
  (0 \in DOMAIN returned /\ 1 \in DOMAIN returned) =>
    Range(returned[0]) \subseteq Range(returned[1])

\* C2, amended: with the same word and the same max_results, every string
\* returned at level 0 is also returned at level 1 provided max_results is
\* at least the number of level-1 variants of the word (the level-1 call is
\* not truncated).
C2_Level0SubsetWhenNotTruncated ==
  (/\ 0 \in DOMAIN returned
   /\ 1 \in DOMAIN returned
   /\ max_results >= Cardinality(Variations(word, 1)))
    => Range(returned[0]) \subseteq Range(returned[1])

\* C2 witness: both calls are made, the level-1 call is not truncated and it
\* returns strictly more than the level-0 call.
C2_Witness ==
  /\ 0 \in DOMAIN returned
  /\ 1 \in DOMAIN returned
  /\ max_results >= Cardinality(Variations(word, 1))
  /\ Len(returned[1]) > Len(returned[0])
  /\ Len(returned[0]) > 1

\* The strings the claim lists for words W and patterns P.
PatternSet(W, P) ==
  W \cup { w \o p : w \in W, p \in P }
    \cup { p \o w : w \in W, p \in P }
    \cup { w \o << "_" >> \o p : w \in W, p \in P }

\* C3: add_common_patterns(W, P) returns exactly the set
\* W + { w+p, p+w, w+"_"+p : w in W, p in P }, with no other element and no
\* duplicate; for W = ["x"], P = ["123"] that is {"x", "x123", "123x",
\* "x_123"}.
C3_ExactlyWordsAndPatterned ==
  patterned # << >> =>
    LET r == patterned[1]
    IN  /\ Range(r) = PatternSet(Range(words), Range(patterns))
        /\ \A i, j \in DOMAIN r : i # j => r[i] # r[j]
        /\ (words = << S_x >> /\ patterns = << S_123 >>) =>
             Range(r) = { S_x,
                          << "x", "1", "2", "3" >>,
                          << "1", "2", "3", "x" >>,
                          << "x", "_", "1", "2", "3" >> }

\* C3 witness: the call on ["x"] and ["123"] has returned its four strings.
C3_Witness ==
  /\ words = << S_x >>
  /\ patterns = << S_123 >>
  /\ patterned # << >>
  /\ Len(patterned[1]) = 4


\* The policy in force: the default when the argument is None.
PolicyInForce == IF policy = << >> THEN DefaultPolicy ELSE policy[1]

\* The codes policy_check can report under the policy in force, in the order
\* of the checks, and whether the i-th of them applies to the password.
CodesInOrder ==
  << too_short, missing_upper, missing_digit >>
    \o [ i \in DOMAIN PolicyInForce.ban_substrings |->
           contains_(PolicyInForce.ban_substrings[i]) ]

CheckFails(i) ==
  CASE i = 1 -> Len(password) < PolicyInForce.min_length
    [] i = 2 -> PolicyInForce.require_upper
                  /\ \A k \in DOMAIN password : ~IsUpper(password[k])
    [] i = 3 -> PolicyInForce.require_digit
                  /\ \A k \in DOMAIN password : password[k] \notin Digits
    [] OTHER -> Contains(lower(password), PolicyInForce.ban_substrings[i - 3])

\* C4: policy_check runs all its checks and reports the failure codes in the
\* fixed order too_short, missing_upper, missing_digit, then contains_<b> in
\* the order of the policy's list: the failures are exactly the codes whose
\* check fails, in that order; passed is true iff the list is empty; and
\* with the default policy "abcdefg1" gives passed = false with
\* missing_upper and without too_short.
C4_AllChecksInOrder ==
  checked # << >> =>
    LET r == checked[1]
        failing == SelectSeq([ i \in DOMAIN CodesInOrder |-> i ],
                             LAMBDA i : CheckFails(i))
    IN  /\ r.failures = [ k \in DOMAIN failing |-> CodesInOrder[failing[k]] ]
        /\ r.passed <=> (r.failures = << >>)
        /\ (password = S_abcdefg1 /\ policy = << >>) =>
             /\ r.passed = FALSE
             /\ missing_upper \in Range(r.failures)
             /\ too_short \notin Range(r.failures)

\* C4 witness: "abcdefg1" has been checked against the default policy and
\* failed.
C4_Witness ==
  /\ password = S_abcdefg1
  /\ policy = << >>
  /\ checked # << >>
  /\ checked[1].passed = FALSE

\* C5, as claimed: for each banned substring b, whatever its letter case,
\* contains_<b> is reported iff b occurs in the password with letter case
\* ignored on both sides.
C5_BanMatchIgnoresCase ==
  checked # << >> =>
    \A i \in DOMAIN PolicyInForce.ban_substrings :
      LET b == PolicyInForce.ban_substrings[i]
      IN  contains_(b) \in Range(checked[1].failures)
            <=> Contains(lower(password), lower(b))

\* The alphabet size of the claim: 26, 26, 10 and 32 for the character
\* classes present in the password.
ClassOf(c) ==
  IF IsLower(c) THEN "lower"
  ELSE IF IsUpper(c) THEN "upper"
  ELSE IF c \in Digits THEN "digit"
  ELSE "other"

AlphabetSize(pw) ==
  LET present == { ClassOf(pw[i]) : i \in DOMAIN pw }
  IN  (IF "lower" \in present THEN 26 ELSE 0)
        + (IF "upper" \in present THEN 26 ELSE 0)
        + (IF "digit" \in present THEN 10 ELSE 0)
        + (IF "other" \in present THEN 32 ELSE 0)

Penalty(pw) ==
  IF \E w \in { S_123, S_password, S_qwerty, S_admin, S_letmein } :
       Contains(lower(pw), w)
  THEN 10 * Micro
  ELSE 0

\* C9: estimate_entropy_bits(p) = max(0, len(p) * log2(A) - penalty), with A
\* the alphabet size and penalty 10 bits when the lowercased p contains one
\* of the common substrings; it is never negative, and 0 for the empty
\* string.
C9_EntropyFormula ==
  bits # << >> =>
    /\ bits[1] >= 0
    /\ password = << >> => bits[1] = 0
    /\ password # << >> =>
         LET raw == Len(password) * Log2Micro[AlphabetSize(password)]
                      - Penalty(password)
         IN  bits[1] = IF raw > 0 THEN raw ELSE 0

\* C9 witness: "123" (3 * log2(10) < 10) has been estimated, and the clamp
\* gave 0.
C9_Witness ==
  /\ password = S_123
  /\ bits = << 0 >>


\* The candidates of the lines of the candidates file, and their digests.
CandidatesOfLines ==
  [ i \in DOMAIN candidates_file |-> strip(candidates_file[i]) ] \o << >>

DigestsOfLines ==
  [ i \in DOMAIN candidates_file |-> sha256_hex(strip(candidates_file[i])) ] \o << >>

\* The entries of table T whose digest equals digest d, and the number of
\* (line, entry) matches on the lines before line i, D being the digests of
\* the lines.
Matching(T, d) == { k \in DOMAIN T : T[k][2] = d }

MatchesBefore(T, D, i) ==
  Cardinality({ p \in (1..(i - 1)) \X (DOMAIN T) : p[2] \in Matching(T, D[p[1]]) })

\* C6: lab_simulate_match returns, in candidate-file order, one tuple
\* (identifier, candidate, digest) for exactly the pairs where the candidate
\* is one of the first max_checks lines and its digest equals the table
\* digest of the identifier; later lines give nothing, and with no equal
\* digest the result is empty.
C6_HitsAreTheMatchesInOrder ==
  hits # << >> =>
    LET h == hits[1]
        T == load_local_sha256_hashes(hashes_file)
        C == CandidatesOfLines
        D == DigestsOfLines
        limit == Min(max_checks, Len(candidates_file))
        start == [ i \in 1..(limit + 1) |-> MatchesBefore(T, D, i) ] \o << >>
    IN  /\ Len(h) = start[limit + 1]
        /\ \A i \in 1..limit :
             { h[n] : n \in (start[i] + 1)..start[i + 1] }
               = { << T[k][1], C[i], D[i] >> : k \in Matching(T, D[i]) }
        /\ (\A i \in 1..limit : Matching(T, D[i]) = {}) => h = << >>

\* C6 witness: a match was returned while a line beyond max_checks, which
\* would have matched too, was left unread.
C6_Witness ==
  /\ hits # << >>
  /\ hits[1] # << >>
  /\ max_checks < Len(candidates_file)
  /\ Matching(load_local_sha256_hashes(hashes_file),
              DigestsOfLines[Len(candidates_file)]) # {}

\* A digest of DigestLen lowercase hex digits; the same with either case.
IsLowerHexDigest(d) ==
  Len(d) = DigestLen /\ \A i \in DOMAIN d : d[i] \in Range(HexDigits)

IsHexDigest(d) == IsLowerHexDigest(lower(d))

\* The lines of the hash file that are neither empty nor without a colon,
\* and the two fields of such a line.
EntryLines ==
  { i \in DOMAIN hashes_file :
      strip(hashes_file[i]) # << >> /\ ":" \in Range(hashes_file[i]) }

UserField(i) ==
  LET line == strip(hashes_file[i])
  IN  strip(SubSeq(line, 1, FirstColon(line) - 1))

DigestField(i) ==
  LET line == strip(hashes_file[i])
  IN  strip(SubSeq(line, FirstColon(line) + 1, Len(line)))

\* C10, as claimed: every digest value of the mapping returned by
\* load_local_sha256_hashes is a string of exactly 64 lowercase hex digits,
\* and empty lines and lines without a colon contribute no entry.
C10_DigestsAreLowerHex64 ==
  targets # << >> =>
    /\ \A k \in DOMAIN targets[1] : IsLowerHexDigest(targets[1][k][2])
    /\ { targets[1][k][1] : k \in DOMAIN targets[1] }
         = { UserField(i) : i \in EntryLines }

\* C10, amended: every digest value of the mapping is the text after the
\* first colon of the last line with its identifier, stripped of surrounding
\* whitespace and lowercased (so it holds no uppercase letter), and it is a
\* string of exactly 64 lowercase hex digits whenever that text is 64 hex
\* digits in either letter case; empty lines and lines without a colon
\* contribute no entry.
C10_DigestsAreLoweredFields ==
  targets # << >> =>
    LET t == targets[1]
    IN  /\ { t[k][1] : k \in DOMAIN t } = { UserField(i) : i \in EntryLines }
        /\ \A j, k \in DOMAIN t : j # k => t[j][1] # t[k][1]
        /\ \A k \in DOMAIN t :
             LET from == { i \in EntryLines : UserField(i) = t[k][1] }
                 last == CHOOSE i \in from : \A j \in from : j <= i
             IN  /\ t[k][2] = lower(DigestField(last))
                 /\ \A n \in DOMAIN t[k][2] : ~IsUpper(t[k][2][n])
                 /\ IsHexDigest(DigestField(last)) => IsLowerHexDigest(t[k][2])

\* C10 witness: a file with a skipped line and a line whose digest is
\* written in uppercase hex has been loaded, and that digest is stored as 64
\* lowercase hex digits.
C10_Witness ==
  /\ targets # << >>
  /\ Len(targets[1]) < Len(hashes_file)
  /\ \E k \in DOMAIN targets[1] :
       /\ targets[1][k] = << S_bob, sha256_hex(S_pass) >>
       /\ IsLowerHexDigest(targets[1][k][2])


\* The events of a kind, and whether the lab simulation touched anything.
EventsOf(kind) == { events[i].what : i \in { j \in DOMAIN events : events[j].kind = kind } }

LabSimTouched ==
  \/ "lab_simulate_match" \in EventsOf("call")
  \/ EventsOf("open") \cap { "hashes", "candidates" } # {}
  \/ hits # << >>

\* C7: in every run of the lab-sim command, lab_simulate_match is invoked
\* (and a hash or candidates file opened) only if both --lab and --confirm
\* were given; with a flag missing the command refuses and returns without
\* reading files, matching or writing an audit record.
C7_LabSimNeedsBothFlags ==
  args.cmd = "lab-sim" =>
    /\ LabSimTouched => (args.lab /\ args.confirm)
    /\ (pc = "exit" /\ ~(args.lab /\ args.confirm)) =>
         /\ events = << Message("Lab simulation requires --lab and --confirm") >>
         /\ hits = << >>

\* C7 witness: lab-sim was run with --lab but without --confirm, on files
\* that exist, and has returned.
C7_Witness ==
  /\ pc = "exit"
  /\ args.cmd = "lab-sim"
  /\ args.lab
  /\ ~args.confirm
  /\ args.hashes_exists
  /\ args.candidates_exists
  /\ events # << >>

\* The core generation functions.
CoreGeneration ==
  { "generate_common_passwords", "generate_leetspeak_variations",
    "add_common_patterns" }

\* C8, as claimed: on every path to the generation pipeline (the gen
\* command, the g key of the terminal UI, the original script's main), no
\* core generation function is ever invoked on a keyword that does not match
\* ^[A-Za-z0-9]+$.
C8_PipelineOnlyOnAlnumKeyword ==
  \A i \in DOMAIN events :
    (events[i].kind = "call" /\ events[i].what \in CoreGeneration)
      => MatchesAlnum(events[i].arg)

\* ------------------------------------------------------------------------
\* C11: the triple cap
\* ------------------------------------------------------------------------

\* The increasing triples of substitutable positions of w that have fewer
\* than 50 such triples before them in index order.
FirstFiftyTriples(w) ==
  LET T == { t \in Indices(w) \X Indices(w) \X Indices(w) :
               t[1] < t[2] /\ t[2] < t[3] }
  IN  { t \in T : Cardinality({ u \in T : TripleLess(u, t) }) < 50 }

\* w with the first replacement token at the three positions of t and every
\* other position as it is.
PrimaryAt(w, t) ==
  [ i \in 1..Len(w) |->
      IF i \in { t[1], t[2], t[3] } THEN leet_substitutions[w[i]][1]
      ELSE w[i] ]

\* The calls at levels 2 and 3 have both returned, neither one truncated.
Levels2And3Untruncated ==
  /\ { 2, 3 } \subseteq DOMAIN returned
  /\ Len(returned[3]) < max_results

\* C11: for every word, the strings returned at level 3 and not at level 2,
\* when max_results truncates neither list, are exactly the strings that the
\* first 50 triples of substitutable positions (in increasing index order)
\* give, one per triple, with the first replacement token at the triple's
\* three positions of the lowercased word and every other position
\* unchanged; so level 3 adds at most 50 strings.
C11_TripleCap ==
  Levels2And3Untruncated =>
    LET w == lower(word)
        level2 == Range(returned[2])
        added == Range(returned[3]) \ level2
    IN  /\ added = { PrimaryAt(w, t) : t \in FirstFiftyTriples(w) } \ level2
        /\ Cardinality(added) <= 50

\* A word with more than 50 triples of substitutable positions has gone
\* through levels 2 and 3 untruncated, and level 3 added exactly 50 strings.
C11_Witness ==
  /\ Levels2And3Untruncated
  /\ LET n == Cardinality(Indices(lower(word)))
     IN  (n * (n - 1) * (n - 2)) \div 6 > 50
  /\ Cardinality(Range(returned[3]) \ Range(returned[2])) = 50

\* ------------------------------------------------------------------------
\* C12: the candidate list of the gen command
\* ------------------------------------------------------------------------

\* The lists a run of the gen command put out: the preview and, if it wrote
\* one, the outfile.
ListsOfRun(run) == { run.previewed } \cup Range(run.written)

====
